---- MODULE Spec2Model ----
(***************************************************************************)
(* Model of the PFX framing engine of dsock (src/pfx.c): two engines, each *)
(* wrapping one end of a duplex byte stream.  wire[e] holds the bytes      *)
(* engine e has written and its peer has not yet consumed.                 *)
(***************************************************************************)
EXTENDS Integers, Sequences, FiniteSets, TLC

\* ------------------------------------------------------------------ bounds
MaxLen == 1        \* longest payload of an application message, in bytes
MaxSends == 2      \* sends that reach a transport whose bytes are kept
MaxFaults == 1     \* transport calls that fail

Engines == {1, 2}
Peer(e) == 3 - e
TransportErrs == {"ETIMEDOUT", "EPIPE"}
\* the deadline a caller passes: an absolute time (-1 would be "no deadline")
Deadlines == {1}

\* ----------------------------------------------------- 64-bit arithmetic
\* A uint64_t is kept as four 16-bit limbs, most significant first.
Limb == 256 * 256
U64Of(n) == <<0, 0, 0, n>>
U64Less(a, b) ==
    \E i \in 1..4 : a[i] < b[i] /\ \A j \in 1..(i - 1) : a[j] = b[j]
U64Add(a, b) ==
    LET s4 == a[4] + b[4]
        s3 == a[3] + b[3] + (s4 \div Limb)
        s2 == a[2] + b[2] + (s3 \div Limb)
        s1 == a[1] + b[1] + (s2 \div Limb)
    IN  <<s1 % Limb, s2 % Limb, s3 % Limb, s4 % Limb>>
\* 0xffffffffffffffff, the termination marker
Sentinel == <<Limb - 1, Limb - 1, Limb - 1, Limb - 1>>

\* big-endian serialisation of a uint64_t into 8 bytes, and back
dsock_putll(v) ==
    <<v[1] \div 256, v[1] % 256, v[2] \div 256, v[2] % 256,
      v[3] \div 256, v[3] % 256, v[4] \div 256, v[4] % 256>>
dsock_getll(b) ==
    <<b[1] * 256 + b[2], b[3] * 256 + b[4], b[5] * 256 + b[6], b[7] * 256 + b[8]>>

\* ------------------------------------------------------------ iovec helpers
RECURSIVE Flatten(_)
Flatten(vec) == IF vec = <<>> THEN <<>> ELSE Head(vec) \o Flatten(Tail(vec))

\* total length of a list of buffers, given their lengths
RECURSIVE iov_size(_)
iov_size(lens) ==
    IF lens = <<>> THEN U64Of(0) ELSE U64Add(U64Of(Head(lens)), iov_size(Tail(lens)))

IovLens(iov) == [i \in DOMAIN iov |-> Len(iov[i])]

\* the first n bytes of capacity of the destination buffers
RECURSIVE iov_cut(_, _)
iov_cut(caps, n) ==
    IF n = 0 \/ caps = <<>> THEN <<>>
    ELSE IF Head(caps) >= n THEN <<n>>
    ELSE <<Head(caps)>> \o iov_cut(Tail(caps), n - Head(caps))

\* data laid out into buffers of the given sizes, in order
RECURSIVE Scatter(_, _)
Scatter(data, sizes) ==
    IF sizes = <<>> THEN <<>>
    ELSE <<SubSeq(data, 1, Head(sizes))>>
         \o Scatter(SubSeq(data, Head(sizes) + 1, Len(data)), Tail(sizes))

\* ------------------------------------------------------------- the transport
\* A fault is an input: which transport call of the operation fails (at),
\* with which error, after moving how many bytes (n).
NoFault == [at |-> 0, err |-> "", n |-> 0]
FaultAt(fault, k) == IF fault.at = k THEN fault ELSE NoFault

\* Each transport call leaves a record: the function, the number of bytes
\* asked for, the deadline, and for a write the first eight bytes offered.
FirstEight(data) == SubSeq(data, 1, IF Len(data) < 8 THEN Len(data) ELSE 8)

\* write_exact: all of data, or a failure after a proper prefix of it
bsendv(data, deadline, fault) ==
    IF fault = NoFault \/ fault.n >= Len(data)
    THEN [rc |-> 0, err |-> "", wr |-> data, faulted |-> FALSE,
          call |-> [fn |-> "bsend", n |-> Len(data), dl |-> deadline,
                    hdr |-> FirstEight(data)]]
    ELSE [rc |-> -1, err |-> fault.err,
          wr |-> SubSeq(data, 1, fault.n), faulted |-> TRUE,
          call |-> [fn |-> "bsend", n |-> Len(data), dl |-> deadline,
                    hdr |-> FirstEight(data)]]

\* read_exact: n bytes of the stream `in`, or a failure after taking fewer;
\* without a failure it blocks until n bytes are there
brecv(in, n, deadline, fault) ==
    LET call == [fn |-> "brecv", n |-> n, dl |-> deadline, hdr |-> <<>>] IN
    IF n = 0
    THEN [rc |-> 0, err |-> "", data |-> <<>>, took |-> 0, blocked |-> FALSE,
          faulted |-> FALSE, call |-> call]
    ELSE IF fault # NoFault /\ fault.n < n /\ fault.n <= Len(in)
    THEN [rc |-> -1, err |-> fault.err, data |-> <<>>,
          took |-> fault.n, blocked |-> FALSE,
          faulted |-> TRUE, call |-> call]
    ELSE IF Len(in) < n
    THEN [rc |-> 0, err |-> "", data |-> <<>>, took |-> 0, blocked |-> TRUE,
          faulted |-> FALSE, call |-> call]
    ELSE [rc |-> 0, err |-> "", data |-> SubSeq(in, 1, n), took |-> n,
          blocked |-> FALSE, faulted |-> FALSE, call |-> call]

\* ------------------------------------------------------------ struct pfx_sock
NewObj(s) == [s |-> s, indone |-> FALSE, outdone |-> FALSE,
              inerr |-> FALSE, outerr |-> FALSE]

\* ---------------------------------------------------------------- pfx_hdone
\* mutant: the guard on outdone is missing, so a second done writes again
pfx_hdone_again(o, fault) ==
    IF o.outerr
    THEN [obj |-> o, rc |-> -1, err |-> "ECONNRESET", wr |-> <<>>, calls |-> <<>>,
          faulted |-> FALSE]
    ELSE LET sz == Sentinel
             r == bsendv(dsock_putll(sz), -1, fault)
         IN  IF r.rc < 0
             THEN [obj |-> [o EXCEPT !.outerr = TRUE], rc |-> -1, err |-> r.err,
                   wr |-> r.wr, calls |-> <<r.call>>, faulted |-> r.faulted]
             ELSE [obj |-> [o EXCEPT !.outdone = TRUE], rc |-> 0, err |-> "",
                   wr |-> r.wr, calls |-> <<r.call>>, faulted |-> r.faulted]

\* mutant: a failed marker write falls through and sets outdone as well
pfx_hdone_both(o, fault) ==
    IF o.outdone
    THEN [obj |-> o, rc |-> -1, err |-> "EPIPE", wr |-> <<>>, calls |-> <<>>,
          faulted |-> FALSE]
    ELSE IF o.outerr
    THEN [obj |-> o, rc |-> -1, err |-> "ECONNRESET", wr |-> <<>>, calls |-> <<>>,
          faulted |-> FALSE]
    ELSE LET sz == Sentinel
             r == bsendv(dsock_putll(sz), -1, fault)
         IN  IF r.rc < 0
             THEN [obj |-> [o EXCEPT !.outerr = TRUE, !.outdone = TRUE], rc |-> -1, err |-> r.err,
                   wr |-> r.wr, calls |-> <<r.call>>, faulted |-> r.faulted]
             ELSE [obj |-> [o EXCEPT !.outdone = TRUE], rc |-> 0, err |-> "",
                   wr |-> r.wr, calls |-> <<r.call>>, faulted |-> r.faulted]

\* mutant: a failed marker write sets outdone where it should set outerr
pfx_hdone_swapped(o, fault) ==
    IF o.outdone
    THEN [obj |-> o, rc |-> -1, err |-> "EPIPE", wr |-> <<>>, calls |-> <<>>,
          faulted |-> FALSE]
    ELSE IF o.outerr
    THEN [obj |-> o, rc |-> -1, err |-> "ECONNRESET", wr |-> <<>>, calls |-> <<>>,
          faulted |-> FALSE]
    ELSE LET sz == Sentinel
             r == bsendv(dsock_putll(sz), -1, fault)
         IN  IF r.rc < 0
             THEN [obj |-> [o EXCEPT !.outdone = TRUE], rc |-> -1, err |-> r.err,
                   wr |-> r.wr, calls |-> <<r.call>>, faulted |-> r.faulted]
             ELSE [obj |-> [o EXCEPT !.outdone = TRUE], rc |-> 0, err |-> "",
                   wr |-> r.wr, calls |-> <<r.call>>, faulted |-> r.faulted]

pfx_hdone(o, fault) ==
    IF o.outdone
    THEN [obj |-> o, rc |-> -1, err |-> "EPIPE", wr |-> <<>>, calls |-> <<>>,
          faulted |-> FALSE]
    ELSE IF o.outerr
    THEN [obj |-> o, rc |-> -1, err |-> "ECONNRESET", wr |-> <<>>, calls |-> <<>>,
          faulted |-> FALSE]
    ELSE LET sz == Sentinel
             r == bsendv(dsock_putll(sz), -1, fault)
         IN  IF r.rc < 0
             THEN [obj |-> [o EXCEPT !.outerr = TRUE], rc |-> -1, err |-> r.err,
                   wr |-> r.wr, calls |-> <<r.call>>, faulted |-> r.faulted]
             ELSE [obj |-> [o EXCEPT !.outdone = TRUE], rc |-> 0, err |-> "",
                   wr |-> r.wr, calls |-> <<r.call>>, faulted |-> r.faulted]

\* --------------------------------------------------------------- pfx_msendv
\* mutant: the header carries the number of buffers, not of bytes
pfx_msendv_iovlen(o, iov, deadline, fault) ==
    IF o.outdone
    THEN [obj |-> o, rc |-> -1, err |-> "EPIPE", wr |-> <<>>, calls |-> <<>>,
          faulted |-> FALSE]
    ELSE IF o.outerr
    THEN [obj |-> o, rc |-> -1, err |-> "ECONNRESET", wr |-> <<>>, calls |-> <<>>,
          faulted |-> FALSE]
    ELSE LET len == iov_size(IovLens(iov))
             szbuf == dsock_putll(U64Of(Len(iov)))
             vec == <<szbuf>> \o iov
             r == bsendv(Flatten(vec), deadline, fault)
         IN  IF r.rc < 0
             THEN [obj |-> [o EXCEPT !.outerr = TRUE], rc |-> -1, err |-> r.err,
                   wr |-> r.wr, calls |-> <<r.call>>, faulted |-> r.faulted]
             ELSE [obj |-> o, rc |-> 0, err |-> "",
                   wr |-> r.wr, calls |-> <<r.call>>, faulted |-> r.faulted]

\* mutant: the guard on outerr is missing, so a broken send path is used again
pfx_msendv_retry(o, iov, deadline, fault) ==
    IF o.outdone
    THEN [obj |-> o, rc |-> -1, err |-> "EPIPE", wr |-> <<>>, calls |-> <<>>,
          faulted |-> FALSE]
    ELSE LET len == iov_size(IovLens(iov))
             szbuf == dsock_putll(len)
             vec == <<szbuf>> \o iov
             r == bsendv(Flatten(vec), deadline, fault)
         IN  IF r.rc < 0
             THEN [obj |-> [o EXCEPT !.outerr = TRUE], rc |-> -1, err |-> r.err,
                   wr |-> r.wr, calls |-> <<r.call>>, faulted |-> r.faulted]
             ELSE [obj |-> o, rc |-> 0, err |-> "",
                   wr |-> r.wr, calls |-> <<r.call>>, faulted |-> r.faulted]

\* mutant: a failed write is reported but the send path is left usable
pfx_msendv_quiet(o, iov, deadline, fault) ==
    IF o.outdone
    THEN [obj |-> o, rc |-> -1, err |-> "EPIPE", wr |-> <<>>, calls |-> <<>>,
          faulted |-> FALSE]
    ELSE IF o.outerr
    THEN [obj |-> o, rc |-> -1, err |-> "ECONNRESET", wr |-> <<>>, calls |-> <<>>,
          faulted |-> FALSE]
    ELSE LET len == iov_size(IovLens(iov))
             szbuf == dsock_putll(len)
             vec == <<szbuf>> \o iov
             r == bsendv(Flatten(vec), deadline, fault)
         IN  IF r.rc < 0
             THEN [obj |-> o, rc |-> -1, err |-> r.err,
                   wr |-> r.wr, calls |-> <<r.call>>, faulted |-> r.faulted]
             ELSE [obj |-> o, rc |-> 0, err |-> "",
                   wr |-> r.wr, calls |-> <<r.call>>, faulted |-> r.faulted]

pfx_msendv(o, iov, deadline, fault) ==
    IF o.outdone
    THEN [obj |-> o, rc |-> -1, err |-> "EPIPE", wr |-> <<>>, calls |-> <<>>,
          faulted |-> FALSE]
    ELSE IF o.outerr
    THEN [obj |-> o, rc |-> -1, err |-> "ECONNRESET", wr |-> <<>>, calls |-> <<>>,
          faulted |-> FALSE]
    ELSE LET len == iov_size(IovLens(iov))
             szbuf == dsock_putll(len)
             vec == <<szbuf>> \o iov
             r == bsendv(Flatten(vec), deadline, fault)
         IN  IF r.rc < 0
             THEN [obj |-> [o EXCEPT !.outerr = TRUE], rc |-> -1, err |-> r.err,
                   wr |-> r.wr, calls |-> <<r.call>>, faulted |-> r.faulted]
             ELSE [obj |-> o, rc |-> 0, err |-> "",
                   wr |-> r.wr, calls |-> <<r.call>>, faulted |-> r.faulted]

\* --------------------------------------------------------------- pfx_mrecvv
\* caps: the capacities of the destination buffers; in: the unread stream.
\* rc is the function's return value (-1, or the message length), took the
\* number of bytes taken off the stream, data the filled destination buffers.
RecvRet(o, rc, err, took, data, calls, blocked, faulted) ==
    [obj |-> o, rc |-> rc, err |-> err, took |-> took, data |-> data,
     calls |-> calls, blocked |-> blocked, faulted |-> faulted]

\* mutant: a message too large for the buffers leaves the receive path usable
pfx_mrecvv_resync(o, caps, deadline, in, fault) ==
    IF o.indone THEN RecvRet(o, -1, "EPIPE", 0, <<>>, <<>>, FALSE, FALSE)
    ELSE IF o.inerr THEN RecvRet(o, -1, "ECONNRESET", 0, <<>>, <<>>, FALSE, FALSE)
    ELSE
    LET h == brecv(in, 8, deadline, FaultAt(fault, 1)) IN
    IF h.blocked THEN RecvRet(o, 0, "", 0, <<>>, <<>>, TRUE, FALSE)
    ELSE IF h.rc < 0
    THEN RecvRet([o EXCEPT !.inerr = TRUE], -1, h.err, h.took, <<>>,
                 <<h.call>>, FALSE, TRUE)
    ELSE
    LET sz == dsock_getll(h.data) IN
    IF sz = Sentinel
    THEN RecvRet([o EXCEPT !.indone = TRUE], -1, "EPIPE", 8, <<>>,
                 <<h.call>>, FALSE, FALSE)
    ELSE
    LET len == iov_size(caps) IN
    IF U64Less(len, sz)
    THEN RecvRet(o, -1, "EMSGSIZE", 8, <<>>,
                 <<h.call>>, FALSE, FALSE)
    ELSE
    LET n == sz[4]
        vec == iov_cut(caps, n)
        b == brecv(SubSeq(in, 9, Len(in)), n, deadline, FaultAt(fault, 2))
    IN
    IF b.blocked THEN RecvRet(o, 0, "", 0, <<>>, <<>>, TRUE, FALSE)
    ELSE IF b.rc < 0
    THEN RecvRet([o EXCEPT !.inerr = TRUE], -1, b.err, 8 + b.took, <<>>,
                 <<h.call, b.call>>, FALSE, TRUE)
    ELSE RecvRet(o, n, "", 8 + n, Scatter(b.data, vec),
                 <<h.call, b.call>>, FALSE, b.faulted)

\* mutant: the termination marker is reported but indone is not set
pfx_mrecvv_nopeerdone(o, caps, deadline, in, fault) ==
    IF o.indone THEN RecvRet(o, -1, "EPIPE", 0, <<>>, <<>>, FALSE, FALSE)
    ELSE IF o.inerr THEN RecvRet(o, -1, "ECONNRESET", 0, <<>>, <<>>, FALSE, FALSE)
    ELSE
    LET h == brecv(in, 8, deadline, FaultAt(fault, 1)) IN
    IF h.blocked THEN RecvRet(o, 0, "", 0, <<>>, <<>>, TRUE, FALSE)
    ELSE IF h.rc < 0
    THEN RecvRet([o EXCEPT !.inerr = TRUE], -1, h.err, h.took, <<>>,
                 <<h.call>>, FALSE, TRUE)
    ELSE
    LET sz == dsock_getll(h.data) IN
    IF sz = Sentinel
    THEN RecvRet(o, -1, "EPIPE", 8, <<>>,
                 <<h.call>>, FALSE, FALSE)
    ELSE
    LET len == iov_size(caps) IN
    IF U64Less(len, sz)
    THEN RecvRet([o EXCEPT !.inerr = TRUE], -1, "EMSGSIZE", 8, <<>>,
                 <<h.call>>, FALSE, FALSE)
    ELSE
    LET n == sz[4]
        vec == iov_cut(caps, n)
        b == brecv(SubSeq(in, 9, Len(in)), n, deadline, FaultAt(fault, 2))
    IN
    IF b.blocked THEN RecvRet(o, 0, "", 0, <<>>, <<>>, TRUE, FALSE)
    ELSE IF b.rc < 0
    THEN RecvRet([o EXCEPT !.inerr = TRUE], -1, b.err, 8 + b.took, <<>>,
                 <<h.call, b.call>>, FALSE, TRUE)
    ELSE RecvRet(o, n, "", 8 + n, Scatter(b.data, vec),
                 <<h.call, b.call>>, FALSE, b.faulted)

\* mutant: a broken send path makes the receive fail as well
pfx_mrecvv_coupled(o, caps, deadline, in, fault) ==
    IF o.indone THEN RecvRet(o, -1, "EPIPE", 0, <<>>, <<>>, FALSE, FALSE)
    ELSE IF o.inerr \/ o.outerr
    THEN RecvRet(o, -1, "ECONNRESET", 0, <<>>, <<>>, FALSE, FALSE)
    ELSE
    LET h == brecv(in, 8, deadline, FaultAt(fault, 1)) IN
    IF h.blocked THEN RecvRet(o, 0, "", 0, <<>>, <<>>, TRUE, FALSE)
    ELSE IF h.rc < 0
    THEN RecvRet([o EXCEPT !.inerr = TRUE], -1, h.err, h.took, <<>>,
                 <<h.call>>, FALSE, TRUE)
    ELSE
    LET sz == dsock_getll(h.data) IN
    IF sz = Sentinel
    THEN RecvRet([o EXCEPT !.indone = TRUE], -1, "EPIPE", 8, <<>>,
                 <<h.call>>, FALSE, FALSE)
    ELSE
    LET len == iov_size(caps) IN
    IF U64Less(len, sz)
    THEN RecvRet([o EXCEPT !.inerr = TRUE], -1, "EMSGSIZE", 8, <<>>,
                 <<h.call>>, FALSE, FALSE)
    ELSE
    LET n == sz[4]
        vec == iov_cut(caps, n)
        b == brecv(SubSeq(in, 9, Len(in)), n, deadline, FaultAt(fault, 2))
    IN
    IF b.blocked THEN RecvRet(o, 0, "", 0, <<>>, <<>>, TRUE, FALSE)
    ELSE IF b.rc < 0
    THEN RecvRet([o EXCEPT !.inerr = TRUE], -1, b.err, 8 + b.took, <<>>,
                 <<h.call, b.call>>, FALSE, TRUE)
    ELSE RecvRet(o, n, "", 8 + n, Scatter(b.data, vec),
                 <<h.call, b.call>>, FALSE, b.faulted)

\* mutant: a body read that fails leaves the receive path usable
pfx_mrecvv_shortbody(o, caps, deadline, in, fault) ==
    IF o.indone THEN RecvRet(o, -1, "EPIPE", 0, <<>>, <<>>, FALSE, FALSE)
    ELSE IF o.inerr THEN RecvRet(o, -1, "ECONNRESET", 0, <<>>, <<>>, FALSE, FALSE)
    ELSE
    LET h == brecv(in, 8, deadline, FaultAt(fault, 1)) IN
    IF h.blocked THEN RecvRet(o, 0, "", 0, <<>>, <<>>, TRUE, FALSE)
    ELSE IF h.rc < 0
    THEN RecvRet([o EXCEPT !.inerr = TRUE], -1, h.err, h.took, <<>>,
                 <<h.call>>, FALSE, TRUE)
    ELSE
    LET sz == dsock_getll(h.data) IN
    IF sz = Sentinel
    THEN RecvRet([o EXCEPT !.indone = TRUE], -1, "EPIPE", 8, <<>>,
                 <<h.call>>, FALSE, FALSE)
    ELSE
    LET len == iov_size(caps) IN
    IF U64Less(len, sz)
    THEN RecvRet([o EXCEPT !.inerr = TRUE], -1, "EMSGSIZE", 8, <<>>,
                 <<h.call>>, FALSE, FALSE)
    ELSE
    LET n == sz[4]
        vec == iov_cut(caps, n)
        b == brecv(SubSeq(in, 9, Len(in)), n, deadline, FaultAt(fault, 2))
    IN
    IF b.blocked THEN RecvRet(o, 0, "", 0, <<>>, <<>>, TRUE, FALSE)
    ELSE IF b.rc < 0
    THEN RecvRet(o, -1, b.err, 8 + b.took, <<>>,
                 <<h.call, b.call>>, FALSE, TRUE)
    ELSE RecvRet(o, n, "", 8 + n, Scatter(b.data, vec),
                 <<h.call, b.call>>, FALSE, b.faulted)

pfx_mrecvv(o, caps, deadline, in, fault) ==
    IF o.indone THEN RecvRet(o, -1, "EPIPE", 0, <<>>, <<>>, FALSE, FALSE)
    ELSE IF o.inerr THEN RecvRet(o, -1, "ECONNRESET", 0, <<>>, <<>>, FALSE, FALSE)
    ELSE
    LET h == brecv(in, 8, deadline, FaultAt(fault, 1)) IN
    IF h.blocked THEN RecvRet(o, 0, "", 0, <<>>, <<>>, TRUE, FALSE)
    ELSE IF h.rc < 0
    THEN RecvRet([o EXCEPT !.inerr = TRUE], -1, h.err, h.took, <<>>,
                 <<h.call>>, FALSE, TRUE)
    ELSE
    LET sz == dsock_getll(h.data) IN
    IF sz = Sentinel
    THEN RecvRet([o EXCEPT !.indone = TRUE], -1, "EPIPE", 8, <<>>,
                 <<h.call>>, FALSE, FALSE)
    ELSE
    LET len == iov_size(caps) IN
    IF U64Less(len, sz)
    THEN RecvRet([o EXCEPT !.inerr = TRUE], -1, "EMSGSIZE", 8, <<>>,
                 <<h.call>>, FALSE, FALSE)
    ELSE
    LET n == sz[4]
        vec == iov_cut(caps, n)
        b == brecv(SubSeq(in, 9, Len(in)), n, deadline, FaultAt(fault, 2))
    IN
    IF b.blocked THEN RecvRet(o, 0, "", 0, <<>>, <<>>, TRUE, FALSE)
    ELSE IF b.rc < 0
    THEN RecvRet([o EXCEPT !.inerr = TRUE], -1, b.err, 8 + b.took, <<>>,
                 <<h.call, b.call>>, FALSE, TRUE)
    ELSE RecvRet(o, n, "", 8 + n, Scatter(b.data, vec),
                 <<h.call, b.call>>, FALSE, b.faulted)

\* --------------------------------------------------------------- pfx_hclose
\* closes the wrapped handle when the object holds one, then frees the object
pfx_hclose(o) == [close |-> o.s >= 0, free |-> TRUE]

\* ---------------------------------------------------------------- pfx_start
\* What the calls pfx_start makes return is an input: hquery(s, bsock_type),
\* malloc, hmake and hdup each give "ok" or the errno they fail with.  junk is
\* what the variable err of pfx_start holds when nothing was assigned to it,
\* again is what freeing the struct a second time does.
StartOk == [bs |-> "ok", malloc |-> "ok", hmake |-> "ok", hdup |-> "ok",
            junk |-> "ENOMEM", again |-> "unnoticed"]
\* the handle the caller passes to pfx_start and the handle hmake gives the
\* engine; the private copy hdup makes of the caller's handle is numbered e
CallerHandle(e) == e + 2
EngineHandle(e) == e + 4

\* mutant: the caller's handle is not closed when pfx_start succeeds
pfx_start_keeps(e, env) ==
    [rc |-> EngineHandle(e), err |-> "", obj |-> NewObj(e), mem |-> "live",
     nfree |-> 0, htab |-> TRUE, orig |-> "open", tr |-> "engine",
     nclose |-> 0, aborted |-> FALSE]

\* the return path of a pfx_start that succeeds (lines 84 to 86)
pfx_start_done(e, env) ==
    [rc |-> EngineHandle(e), err |-> "", obj |-> NewObj(e), mem |-> "live",
     nfree |-> 0, htab |-> TRUE, orig |-> "closed", tr |-> "engine",
     nclose |-> 0, aborted |-> FALSE]

\* rc and err are what the call returns and leaves in errno; obj, mem and
\* nfree the struct, whether it is allocated and how often it was freed; htab
\* whether the engine's handle is registered; orig the state of the caller's
\* handle; tr who holds the transport; aborted whether the process was killed.
pfx_start(e, env) ==
    LET none == [rc |-> -1, err |-> "", obj |-> NewObj(-1), mem |-> "none",
                 nfree |-> 0, htab |-> FALSE, orig |-> "open", tr |-> "caller",
                 nclose |-> 0, aborted |-> FALSE]
    IN
    IF env.bs # "ok" THEN [none EXCEPT !.err = env.bs]
    ELSE IF env.malloc # "ok" THEN [none EXCEPT !.err = "ENOMEM"]
    ELSE IF env.hmake # "ok"
    \* error2 with the errno saved in a variable of the inner block: the err
    \* that is reported was never assigned
    THEN [none EXCEPT !.err = env.junk, !.mem = "freed", !.nfree = 1]
    ELSE IF env.hdup # "ok"
    \* error3: hclose(h) runs pfx_hclose, which frees the struct; error2
    \* frees it again
    THEN LET c == pfx_hclose(NewObj(-1)) IN
         [none EXCEPT !.err = env.hdup, !.mem = "freed",
                      !.nfree = (IF c.free THEN 1 ELSE 0) + 1,
                      !.nclose = IF c.close THEN 1 ELSE 0,
                      !.aborted = c.free /\ env.again = "abort"]
    ELSE pfx_start_done(e, env)

\* ----------------------------------------------------------------- pfx_stop
\* mutant: stop goes to the drain loop without the terminal handshake
pfx_stop_begin_silent(o, fault) ==
    IF o.inerr \/ o.outerr
    THEN [obj |-> o, next |-> "error", err |-> "ECONNRESET", wr |-> <<>>,
          calls |-> <<>>, faulted |-> FALSE]
    ELSE [obj |-> o, next |-> "drain", err |-> "", wr |-> <<>>,
          calls |-> <<>>, faulted |-> FALSE]

\* The entry of pfx_stop, up to the drain loop.  next is "error" (the error:
\* label), or "drain" (the loop is entered).
pfx_stop_begin(o, fault) ==
    IF o.inerr \/ o.outerr
    THEN [obj |-> o, next |-> "error", err |-> "ECONNRESET", wr |-> <<>>,
          calls |-> <<>>, faulted |-> FALSE]
    ELSE IF ~o.outdone
    THEN LET r == pfx_hdone(o, fault) IN
         IF r.rc < 0
         THEN [obj |-> r.obj, next |-> "error", err |-> r.err, wr |-> r.wr,
               calls |-> r.calls, faulted |-> r.faulted]
         ELSE [obj |-> r.obj, next |-> "drain", err |-> "", wr |-> r.wr,
               calls |-> r.calls, faulted |-> r.faulted]
    ELSE [obj |-> o, next |-> "drain", err |-> "", wr |-> <<>>,
          calls |-> <<>>, faulted |-> FALSE]

\* One turn of the drain loop: a receive into no buffers.  next is "loop",
\* "return" (the transport is handed back) or "error".
pfx_stop_drain(o, deadline, in, fault) ==
    LET r == pfx_mrecvv(o, <<>>, deadline, in, fault)
        next == IF r.rc < 0 /\ r.err = "EPIPE" THEN "return"
                ELSE IF r.rc < 0 THEN "error"
                ELSE "loop"
    IN  [obj |-> r.obj, next |-> next, err |-> IF next = "error" THEN r.err ELSE "",
         took |-> r.took, calls |-> r.calls, blocked |-> r.blocked,
         faulted |-> r.faulted]

\* The two ways out of pfx_stop: what is returned, and what happens to the
\* wrapped handle and to the object.
pfx_stop_return(o) == [rc |-> o.s, err |-> "", close |-> FALSE, free |-> TRUE]
\* mutant: the error path frees the struct without closing the wrapped handle
pfx_stop_error_leak(o, err) ==
    [rc |-> -1, err |-> err, close |-> FALSE, free |-> pfx_hclose(o).free]
pfx_stop_error(o, err) ==
    [rc |-> -1, err |-> err, close |-> pfx_hclose(o).close,
     free |-> pfx_hclose(o).free]

\* ------------------------------------------------------------------- state
VARIABLES
    obj,       \* obj[e]: the fields of engine e's struct pfx_sock
    mem,       \* mem[e]: "live" while the struct is allocated, else "freed"
    htab,      \* htab[e]: the engine's handle is registered in the handle table
    tr,        \* tr[e]: the wrapped handle: "engine", "caller" (handed back), "closed"
    nclose,    \* nclose[e]: times engine code closed the wrapped handle
    uaf,       \* uaf[e]: engine code has run on the freed struct
    aborted,   \* aborted[e]: the process of engine e was aborted
    wire,      \* wire[e]: bytes written by e that its peer has not consumed
    stp,       \* stp[e]: the position of a pfx_stop call in progress
    last,      \* the last call that returned, with its arguments and result
    pending,   \* pending[e]: messages e sent that its peer has not received
    roomy,     \* roomy[e]: every receive of e so far had room for its message
    ntry,      \* ntry[e]: transport writes of e that offered a termination marker
    nmark,     \* nmark[e]: termination markers e has put on the wire
    toobig,    \* toobig[e]: a receive of e has failed with EMSGSIZE
    handed,    \* handed[e]: pfx_stop has returned the wrapped handle to its caller
    seen,      \* seen[e]: e has read a complete header equal to the sentinel
    nsend,     \* nsend[e]: sends of e that reached a transport whose bytes are kept
    nfault,    \* transport calls that have failed
    orig,      \* orig[e]: the handle passed to pfx_start: "open" or "closed"
    nfree,     \* nfree[e]: times the struct of engine e was passed to free
    inside     \* inside[e]: e has stopped reading in the middle of a frame

vars == <<obj, mem, htab, tr, nclose, uaf, aborted, wire, stp, last, pending,
          roomy, ntry, nmark, toobig, handed, seen, nsend, nfault, orig, nfree,
          inside>>

Idle == [at |-> "idle", dl |-> 0, pre |-> NewObj(0), calls |-> <<>>, took |-> 0]

\* expect: the oldest message not yet received when a receive was called
\* hdr: the first bytes of the unread stream when a receive was called;
\* fault: the transport failure the call met, if any; env: what the calls of
\* a pfx_start returned
NoCall == [eng |-> 0, op |-> "none", dl |-> 0, msg |-> <<>>, caps |-> <<>>,
           pre |-> NewObj(0), rc |-> 0, err |-> "", took |-> 0, wr |-> <<>>,
           data |-> <<>>, calls |-> <<>>, expect |-> <<>>, hdr |-> <<>>,
           fault |-> NoFault, env |-> StartOk]

Init ==
    /\ obj = [e \in Engines |-> NewObj(e)]
    /\ mem = [e \in Engines |-> "live"]
    /\ htab = [e \in Engines |-> TRUE]
    /\ tr = [e \in Engines |-> "engine"]
    /\ nclose = [e \in Engines |-> 0]
    /\ uaf = [e \in Engines |-> FALSE]
    /\ aborted = [e \in Engines |-> FALSE]
    /\ wire = [e \in Engines |-> <<>>]
    /\ stp = [e \in Engines |-> Idle]
    /\ last = NoCall
    /\ pending = [e \in Engines |-> <<>>]
    /\ roomy = [e \in Engines |-> TRUE]
    /\ ntry = [e \in Engines |-> 0]
    /\ nmark = [e \in Engines |-> 0]
    /\ toobig = [e \in Engines |-> FALSE]
    /\ handed = [e \in Engines |-> FALSE]
    /\ seen = [e \in Engines |-> FALSE]
    /\ nsend = [e \in Engines |-> 0]
    /\ nfault = 0
    /\ orig = [e \in Engines |-> "closed"]
    /\ nfree = [e \in Engines |-> 0]
    /\ inside = [e \in Engines |-> FALSE]

\* ------------------------------------------------------------------ inputs
\* the message of n bytes a caller sends: 255, 254, ...
Msg(n) == [i \in 1..n |-> 256 - i]
Msgs == {Msg(n) : n \in 0..MaxLen}
\* a message as one buffer, or cut into two
SendIovs == {<<m>> : m \in Msgs}
            \cup {<<SubSeq(m, 1, 1), SubSeq(m, 2, Len(m))>> : m \in Msgs \ {<<>>}}
RecvIovs == {<<c>> : c \in 0..MaxLen} \cup {<<1, c>> : c \in 0..(MaxLen - 1)}
\* a failing call moves nothing, half a header, or a whole header
FaultCuts == {0, 4, 8}
FaultInputs == {NoFault} \cup [at : {1, 2}, err : TransportErrs, n : FaultCuts]

\* the faults a call may meet: none once MaxFaults calls have failed
Faults == IF nfault < MaxFaults THEN FaultInputs ELSE {NoFault}
\* a fault is injected only where a transport call takes it
FaultOk(fault, faulted) == faulted = (fault # NoFault)

\* what a call does to the count of failures, and whether any has happened
Fails(faulted) == nfault' = IF faulted THEN nfault + 1 ELSE nfault
Faulty == nfault > 0

\* A caller uses engine e while its handle is valid and no call is in
\* progress on it, and while the peer's end of the stream is open.
Callable(e) ==
    /\ htab[e] /\ mem[e] = "live" /\ stp[e].at = "idle" /\ ~aborted[e]
    /\ tr[Peer(e)] # "closed"

EightOnes == <<255, 255, 255, 255, 255, 255, 255, 255>>
WroteMarker(wr) == Len(wr) >= 8 /\ SubSeq(wr, 1, 8) = EightOnes
OfferedMarker(calls) ==
    \E i \in DOMAIN calls : calls[i].fn = "bsend" /\ calls[i].hdr = EightOnes
\* what a call's writes do to the counts of markers offered and written
Marks(e, r) ==
    /\ ntry' = [ntry EXCEPT ![e] = IF OfferedMarker(r.calls) THEN @ + 1 ELSE @]
    /\ nmark' = [nmark EXCEPT ![e] = IF WroteMarker(r.wr) THEN @ + 1 ELSE @]
ReadMarker(in, took, calls) ==
    calls # <<>> /\ took >= 8 /\ SubSeq(in, 1, 8) = EightOnes
\* The size of the frame at the head of a stream that starts at a frame
\* boundary (payloads are shorter than 65536 bytes), and whether a reader
\* that takes `took` bytes of such a stream stops at a frame boundary again.
FrameSize(in) ==
    IF FirstEight(in) = EightOnes THEN 8 ELSE 8 + in[7] * 256 + in[8]
AtBoundary(in, took) ==
    took = 0 \/ (Len(in) >= 8 /\ took = FrameSize(in))

\* The messages in flight are followed only while the stream is whole: no
\* transport call has failed and every receive had room for its message.

\* ------------------------------------------------------------------ actions
\* The bytes e writes stay on the wire for its peer when the peer reads in the
\* specification at hand; otherwise they leave the model as they are written.
Put(e, keep, wr) == wire' = [wire EXCEPT ![e] = IF keep THEN @ \o wr ELSE @]

\* msendv on the engine's handle
Send(e, keep) ==
    /\ Callable(e)
    /\ \E iov \in SendIovs, dl \in Deadlines, fault \in Faults :
        \E r \in {pfx_msendv(obj[e], iov, dl, fault)} :
        /\ FaultOk(fault, r.faulted)
        /\ keep /\ r.calls # <<>> => nsend[e] < MaxSends
        /\ obj' = [obj EXCEPT ![e] = r.obj]
        /\ Put(e, keep, r.wr)
        /\ Fails(r.faulted)
        /\ pending' = [f \in Engines |->
                         IF Faulty' THEN <<>>
                         ELSE IF f = e /\ keep /\ r.rc = 0 /\ roomy[Peer(e)]
                              THEN Append(pending[e], Flatten(iov))
                         ELSE pending[f]]
        /\ Marks(e, r)
        /\ nsend' = [nsend EXCEPT ![e] = IF keep /\ r.calls # <<>> THEN @ + 1 ELSE @]
        /\ last' = [NoCall EXCEPT !.eng = e, !.op = "send", !.dl = dl,
                       !.msg = Flatten(iov), !.pre = obj[e], !.rc = r.rc,
                       !.err = r.err, !.wr = r.wr, !.calls = r.calls,
                       !.fault = fault]
    /\ UNCHANGED <<mem, htab, tr, nclose, uaf, aborted, stp, roomy, toobig,
                   handed, seen, orig, nfree, inside>>

\* Whether a receive of e into buffers caps has room for the oldest message in
\* flight (when none is in flight, the receive is not one of a message).
HasRoom(e, caps) ==
    /\ pending[Peer(e)] # <<>>
    /\ ~U64Less(iov_size(caps), U64Of(Len(Head(pending[Peer(e)]))))

\* what a completed receive of engine e does to the messages in flight
LogRecv(e, caps, isFaulty) ==
    /\ roomy' = [roomy EXCEPT ![e] = @ /\ HasRoom(e, caps)]
    /\ pending' = [f \in Engines |->
                     IF isFaulty THEN <<>>
                     ELSE IF f = Peer(e)
                          THEN IF roomy'[e] THEN Tail(pending[f]) ELSE <<>>
                     ELSE pending[f]]

\* mrecvv on the engine's handle
Recv(e) ==
    /\ Callable(e)
    /\ \E caps \in RecvIovs, dl \in Deadlines, fault \in Faults :
        \E in \in {wire[Peer(e)]} :
        \E r \in {pfx_mrecvv(obj[e], caps, dl, in, fault)} :
        /\ ~r.blocked
        /\ FaultOk(fault, r.faulted)
        /\ obj' = [obj EXCEPT ![e] = r.obj]
        /\ wire' = [wire EXCEPT ![Peer(e)] = SubSeq(in, r.took + 1, Len(in))]
        /\ seen' = [seen EXCEPT ![e] = @ \/ ReadMarker(in, r.took, r.calls)]
        /\ toobig' = [toobig EXCEPT ![e] = @ \/ r.err = "EMSGSIZE"]
        /\ inside' = [inside EXCEPT ![e] = @ \/ ~AtBoundary(in, r.took)]
        /\ Fails(r.faulted)
        /\ LogRecv(e, caps, Faulty')
        /\ last' = [NoCall EXCEPT !.eng = e, !.op = "recv", !.dl = dl, !.caps = caps,
                       !.pre = obj[e], !.rc = r.rc, !.err = r.err, !.took = r.took,
                       !.data = r.data, !.calls = r.calls,
                       !.expect = IF roomy[e] /\ pending[Peer(e)] # <<>>
                                  THEN <<Head(pending[Peer(e)])>> ELSE <<>>,
                       !.hdr = FirstEight(in), !.fault = fault]
    /\ UNCHANGED <<mem, htab, tr, nclose, uaf, aborted, stp, ntry, nmark, handed,
                   nsend, orig, nfree>>

\* hdone on the engine's handle
Done(e, keep) ==
    /\ Callable(e)
    /\ \E fault \in Faults :
        \E r \in {pfx_hdone(obj[e], fault)} :
        /\ FaultOk(fault, r.faulted)
        /\ obj' = [obj EXCEPT ![e] = r.obj]
        /\ Put(e, keep, r.wr)
        /\ Marks(e, r)
        /\ Fails(r.faulted)
        /\ pending' = [f \in Engines |-> IF Faulty' THEN <<>> ELSE pending[f]]
        /\ last' = [NoCall EXCEPT !.eng = e, !.op = "done", !.dl = -1,
                       !.pre = obj[e], !.rc = r.rc, !.err = r.err, !.wr = r.wr,
                       !.calls = r.calls, !.fault = fault]
    /\ UNCHANGED <<mem, htab, tr, nclose, uaf, aborted, stp, roomy, toobig,
                   handed, seen, nsend, orig, nfree, inside>>

\* what leaving pfx_stop does to the struct and to the wrapped handle
Leave(e, out) ==
    /\ mem' = [mem EXCEPT ![e] = IF out.free THEN "freed" ELSE @]
    /\ tr' = [tr EXCEPT ![e] = IF out.close THEN "closed"
                               ELSE IF out.rc >= 0 THEN "caller" ELSE @]
    /\ nclose' = [nclose EXCEPT ![e] = IF out.close THEN @ + 1 ELSE @]
    /\ handed' = [handed EXCEPT ![e] = @ \/ out.rc >= 0]
    /\ nfree' = [nfree EXCEPT ![e] = IF out.free THEN @ + 1 ELSE @]

\* pfx_stop on a handle that is not registered: hquery finds no object
StopInvalid(e) ==
    /\ ~htab[e] /\ ~aborted[e]
    /\ \E dl \in Deadlines :
        last' = [NoCall EXCEPT !.eng = e, !.op = "stop", !.dl = dl, !.rc = -1,
                    !.err = "EBADF"]
    /\ UNCHANGED <<obj, mem, htab, tr, nclose, uaf, aborted, wire, stp, pending,
                   roomy, ntry, nmark, toobig, handed, seen, nsend, nfault, orig,
                   nfree, inside>>

\* pfx_stop, from its entry to the first turn of the drain loop
StopBegin(e, keep) ==
    /\ Callable(e)
    /\ \E dl \in Deadlines, fault \in Faults :
        \E r \in {pfx_stop_begin(obj[e], fault)} :
        \E out \in {pfx_stop_error(r.obj, r.err)} :
        /\ FaultOk(fault, r.faulted)
        /\ obj' = [obj EXCEPT ![e] = r.obj]
        /\ Put(e, keep, r.wr)
        /\ Marks(e, r)
        /\ Fails(r.faulted)
        /\ pending' = [f \in Engines |-> IF Faulty' THEN <<>> ELSE pending[f]]
        /\ IF r.next = "error"
           THEN /\ Leave(e, out)
                /\ stp' = stp
                /\ last' = [NoCall EXCEPT !.eng = e, !.op = "stop", !.dl = dl,
                               !.pre = obj[e], !.rc = out.rc, !.err = out.err,
                               !.wr = r.wr, !.calls = r.calls, !.fault = fault]
           ELSE /\ stp' = [stp EXCEPT ![e] = [at |-> "drain", dl |-> dl,
                                              pre |-> obj[e], calls |-> r.calls,
                                              took |-> 0]]
                /\ UNCHANGED <<mem, tr, nclose, handed, nfree, last>>
    /\ UNCHANGED <<htab, uaf, aborted, roomy, toobig, seen, nsend, orig, inside>>

\* pfx_stop, one turn of the drain loop and what follows it
StopDrain(e) ==
    /\ htab[e] /\ mem[e] = "live" /\ ~aborted[e]
    /\ stp[e].at = "drain"
    /\ \E fault \in Faults :
        \E in \in {wire[Peer(e)]} :
        \E r \in {pfx_stop_drain(obj[e], stp[e].dl, in, fault)} :
        \E out \in {IF r.next = "return" THEN pfx_stop_return(r.obj)
                     ELSE pfx_stop_error(r.obj, r.err)} :
        \E calls \in {stp[e].calls \o r.calls} :
        /\ ~r.blocked
        /\ FaultOk(fault, r.faulted)
        /\ obj' = [obj EXCEPT ![e] = r.obj]
        /\ wire' = [wire EXCEPT ![Peer(e)] = SubSeq(in, r.took + 1, Len(in))]
        /\ seen' = [seen EXCEPT ![e] = @ \/ ReadMarker(in, r.took, r.calls)]
        /\ toobig' = [toobig EXCEPT ![e] = @ \/ r.err = "EMSGSIZE"]
        /\ inside' = [inside EXCEPT ![e] = @ \/ ~AtBoundary(in, r.took)]
        /\ Fails(r.faulted)
        /\ LogRecv(e, <<>>, Faulty')
        /\ IF r.next = "loop"
           THEN /\ stp' = [stp EXCEPT ![e].calls = calls, ![e].took = @ + r.took]
                /\ UNCHANGED <<mem, tr, nclose, handed, nfree, last>>
           ELSE /\ Leave(e, out)
                /\ stp' = [stp EXCEPT ![e] = Idle]
                /\ last' = [NoCall EXCEPT !.eng = e, !.op = "stop", !.dl = stp[e].dl,
                               !.pre = stp[e].pre, !.rc = out.rc, !.err = out.err,
                               !.took = stp[e].took + r.took, !.calls = calls,
                               !.hdr = FirstEight(in), !.fault = fault]
    /\ UNCHANGED <<htab, uaf, aborted, ntry, nmark, nsend, orig>>

\* hclose on the engine's handle while the struct is live: the handle table
\* calls pfx_hclose and drops the handle
Close(e) ==
    /\ Callable(e)
    /\ LET out == pfx_hclose(obj[e]) IN
        /\ mem' = [mem EXCEPT ![e] = IF out.free THEN "freed" ELSE @]
        /\ tr' = [tr EXCEPT ![e] = IF out.close THEN "closed" ELSE @]
        /\ nclose' = [nclose EXCEPT ![e] = IF out.close THEN @ + 1 ELSE @]
        /\ nfree' = [nfree EXCEPT ![e] = IF out.free THEN @ + 1 ELSE @]
    /\ htab' = [htab EXCEPT ![e] = FALSE]
    /\ last' = [NoCall EXCEPT !.eng = e, !.op = "close", !.pre = obj[e]]
    /\ UNCHANGED <<obj, uaf, aborted, wire, stp, pending, roomy, ntry, nmark,
                   toobig, handed, seen, nsend, nfault, orig, inside>>

\* hclose on the engine's handle after pfx_stop returned: pfx_stop freed the
\* struct and left the handle registered, so pfx_hclose runs on freed memory.
\* What it reads there as obj->s is either the old value or anything else
\* (here: a negative number); closing a handle that is already closed fails
\* the assertion, and the second free may abort the process or go unnoticed.
CloseDangling(e) ==
    /\ htab[e] /\ mem[e] = "freed" /\ ~aborted[e]
    /\ \E s \in {obj[e].s, -1}, freeAborts \in BOOLEAN :
        LET out == pfx_hclose([obj[e] EXCEPT !.s = s])
            assertFails == out.close /\ tr[e] = "closed"
        IN
        /\ tr' = [tr EXCEPT ![e] = IF out.close THEN "closed" ELSE @]
        /\ nclose' = [nclose EXCEPT ![e] = IF out.close /\ ~assertFails THEN @ + 1 ELSE @]
        /\ aborted' = [aborted EXCEPT ![e] = assertFails \/ freeAborts]
        /\ htab' = [htab EXCEPT ![e] = assertFails \/ freeAborts]
        /\ nfree' = [nfree EXCEPT ![e] = IF out.free /\ ~assertFails THEN @ + 1 ELSE @]
    /\ uaf' = [uaf EXCEPT ![e] = TRUE]
    /\ last' = [NoCall EXCEPT !.eng = e, !.op = "close", !.pre = obj[e]]
    /\ UNCHANGED <<obj, mem, wire, stp, pending, roomy, ntry, nmark, toobig,
                   handed, seen, nsend, nfault, orig, inside>>

\* Engine 1 is driven through its whole interface; its peer, engine 2, sends
\* messages and signals done.
Next ==
    \/ Send(1, FALSE)
    \/ Recv(1)
    \/ Done(1, FALSE)
    \/ StopInvalid(1)
    \/ StopBegin(1, FALSE)
    \/ StopDrain(1)
    \/ Close(1)
    \/ CloseDangling(1)
    \/ Send(2, TRUE)
    \/ Done(2, TRUE)

Spec == Init /\ [][Next]_vars

\* Two engines joined by a stream that does not fail (no step raises the count
\* of failed transport calls), each driven through send, receive, done and
\* stop, the bytes of both directions kept.  A stop that is blocked in a
\* transport read goes on when the bytes it waits for have arrived.
Sends(e) == Send(e, TRUE) /\ nfault' = nfault
Recvs(e) == Recv(e) /\ nfault' = nfault
Dones(e) == Done(e, TRUE) /\ nfault' = nfault
Stops(e) == StopBegin(e, TRUE) /\ nfault' = nfault
Drains(e) == StopDrain(e) /\ nfault' = nfault
NextHandshake ==
    \/ Recvs(1) \/ Dones(1) \/ Stops(1) \/ Drains(1)
    \/ Sends(2) \/ Dones(2) \/ Stops(2) \/ Drains(2)

Handshake ==
    Init /\ [][NextHandshake]_vars /\ WF_vars(Drains(1)) /\ WF_vars(Drains(2))

\* ------------------------------------------------------------ long messages
\* Buffers of any size_t length, given by their lengths alone (their bytes
\* are not kept): iov_size adds the lengths modulo 2^64.
RECURSIVE iov_size_wide(_)
iov_size_wide(lens) ==
    IF lens = <<>> THEN U64Of(0) ELSE U64Add(Head(lens), iov_size_wide(Tail(lens)))

\* pfx_msendv on such buffers: what it returns, and the header it hands to
\* the transport in front of them (wr: as much of the header as was written)
pfx_msendv_wide(o, lens, deadline, fault) ==
    IF o.outdone
    THEN [obj |-> o, rc |-> -1, err |-> "EPIPE", wr |-> <<>>, szbuf |-> <<>>,
          faulted |-> FALSE]
    ELSE IF o.outerr
    THEN [obj |-> o, rc |-> -1, err |-> "ECONNRESET", wr |-> <<>>, szbuf |-> <<>>,
          faulted |-> FALSE]
    ELSE LET len == iov_size_wide(lens)
             szbuf == dsock_putll(len)
             fails == fault # NoFault /\ (fault.n < 8 \/ len # U64Of(0))
         IN  IF fails
             THEN [obj |-> [o EXCEPT !.outerr = TRUE], rc |-> -1, err |-> fault.err,
                   wr |-> SubSeq(szbuf, 1, fault.n), szbuf |-> szbuf,
                   faulted |-> TRUE]
             ELSE [obj |-> o, rc |-> 0, err |-> "", wr |-> szbuf, szbuf |-> szbuf,
                   faulted |-> FALSE]

\* lengths a buffer may have: small ones, and ones near 2^63 and 2^64
WideLens ==
    {U64Of(0), U64Of(1), U64Of(Limb - 1), <<0, 0, 1, 0>>,
     <<Limb \div 2 - 1, Limb - 1, Limb - 1, Limb - 1>>,
     <<Limb \div 2, 0, 0, 0>>,
     <<Limb - 1, Limb - 1, Limb - 1, Limb - 2>>,
     <<Limb - 1, Limb - 1, Limb - 1, Limb - 1>>}
WideIovs == {<<a>> : a \in WideLens} \cup {<<a, b>> : a \in WideLens, b \in WideLens}

\* msendv with buffers of any length
SendWide(e) ==
    /\ Callable(e)
    /\ \E lens \in WideIovs, dl \in Deadlines, fault \in Faults :
        \E r \in {pfx_msendv_wide(obj[e], lens, dl, fault)} :
        /\ FaultOk(fault, r.faulted)
        /\ fault.at # 2
        /\ obj' = [obj EXCEPT ![e] = r.obj]
        /\ Fails(r.faulted)
        /\ last' = [NoCall EXCEPT !.eng = e, !.op = "send", !.dl = dl,
                       !.caps = lens, !.pre = obj[e], !.rc = r.rc,
                       !.err = r.err, !.wr = r.wr, !.hdr = r.szbuf,
                       !.fault = fault]
    /\ UNCHANGED <<mem, htab, tr, nclose, uaf, aborted, wire, stp, pending, roomy,
                   ntry, nmark, toobig, handed, seen, nsend, orig, nfree, inside>>

NextLengths ==
    \/ SendWide(1)
    \/ SendWide(2)

Lengths == Init /\ [][NextLengths]_vars

\* ------------------------------------------------------------- construction
\* Before pfx_start: each caller holds an open handle to its end of the
\* stream, and no engine exists.
InitStart ==
    /\ obj = [e \in Engines |-> NewObj(-1)]
    /\ mem = [e \in Engines |-> "none"]
    /\ htab = [e \in Engines |-> FALSE]
    /\ tr = [e \in Engines |-> "caller"]
    /\ nclose = [e \in Engines |-> 0]
    /\ uaf = [e \in Engines |-> FALSE]
    /\ aborted = [e \in Engines |-> FALSE]
    /\ wire = [e \in Engines |-> <<>>]
    /\ stp = [e \in Engines |-> Idle]
    /\ last = NoCall
    /\ pending = [e \in Engines |-> <<>>]
    /\ roomy = [e \in Engines |-> TRUE]
    /\ ntry = [e \in Engines |-> 0]
    /\ nmark = [e \in Engines |-> 0]
    /\ toobig = [e \in Engines |-> FALSE]
    /\ handed = [e \in Engines |-> FALSE]
    /\ seen = [e \in Engines |-> FALSE]
    /\ nsend = [e \in Engines |-> 0]
    /\ nfault = 0
    /\ orig = [e \in Engines |-> "open"]
    /\ nfree = [e \in Engines |-> 0]
    /\ inside = [e \in Engines |-> FALSE]

\* what the calls of pfx_start may return
StartEnvs ==
    [bs : {"ok", "ENOTSUP"}, malloc : {"ok", "ENOMEM"},
     hmake : {"ok", "ENOMEM", "EMFILE"}, hdup : {"ok", "EBADF", "EMFILE"},
     junk : {"ENOMEM", "EINTR"}, again : {"unnoticed", "abort"}]
\* the inputs that pfx_start looks at: a call that is not reached returns "ok"
Reached(env) ==
    /\ env.bs # "ok" => env.malloc = "ok" /\ env.hmake = "ok" /\ env.hdup = "ok"
    /\ env.malloc # "ok" => env.hmake = "ok" /\ env.hdup = "ok"
    /\ env.hmake # "ok" => env.hdup = "ok"
    /\ env.hmake = "ok" => env.junk = StartOk.junk
    /\ env.hdup = "ok" => env.again = StartOk.again

\* pfx_start on the caller's handle; after a failure the caller may try again
Start(e) ==
    /\ orig[e] = "open" /\ ~htab[e] /\ ~aborted[e]
    /\ \E env \in StartEnvs :
        \E r \in {pfx_start(e, env)} :
        /\ Reached(env)
        /\ obj' = [obj EXCEPT ![e] = r.obj]
        /\ mem' = [mem EXCEPT ![e] = r.mem]
        /\ nfree' = [nfree EXCEPT ![e] = r.nfree]
        /\ htab' = [htab EXCEPT ![e] = r.htab]
        /\ orig' = [orig EXCEPT ![e] = r.orig]
        /\ tr' = [tr EXCEPT ![e] = r.tr]
        /\ nclose' = [nclose EXCEPT ![e] = @ + r.nclose]
        /\ aborted' = [aborted EXCEPT ![e] = r.aborted]
        /\ last' = [NoCall EXCEPT !.eng = e, !.op = "start", !.rc = r.rc,
                       !.err = r.err, !.env = env]
    /\ UNCHANGED <<uaf, wire, stp, pending, roomy, ntry, nmark, toobig, handed,
                   seen, nsend, nfault, inside>>

\* Each caller wraps its end of the stream; an engine that exists is used
\* and closed.
NextStartup ==
    \/ Start(1)
    \/ Start(2)
    \/ Send(2, TRUE)
    \/ Recv(1)
    \/ Close(1)
    \/ Close(2)

Startup == InitStart /\ [][NextStartup]_vars

\* ------------------------------------------------------------ properties
\* the last call was made on a live engine (hquery found its struct)
OnEngine == last.eng \in Engines /\ last.pre.s = last.eng
PathsWhole(o) == ~o.inerr /\ ~o.outerr
\* the capacity caps has room for a message of n bytes
Room(caps, n) == ~U64Less(iov_size(caps), U64Of(n))

\* C1: a stop on an engine with neither path broken, over a transport that
\* never fails, returns the wrapped handle whatever application messages
\* (empty or not) precede the peer's termination marker.
C1_StopDiscardsMessages ==
    (/\ last.op = "stop" /\ OnEngine /\ PathsWhole(last.pre) /\ ~Faulty
     /\ obj[Peer(last.eng)].outdone)
        => last.rc >= 0

\* C1, the part the code keeps: a stop that meets only empty messages before
\* the marker returns the wrapped handle (reached by C1_DrainedEmpty).
C1_DrainedEmpty ==
    /\ last.op = "stop" /\ OnEngine /\ ~Faulty /\ last.rc >= 0
    /\ Len(last.calls) >= 3

\* C2: with no transport failure, when every receive so far had room for its
\* message, the next receive with room succeeds, returns the length of the
\* oldest message not yet received and delivers exactly its bytes.
C2_RoundTripFifo ==
    (/\ last.op = "recv" /\ ~Faulty
     /\ last.expect # <<>>
     /\ Room(last.caps, Len(last.expect[1])))
        => /\ last.rc = Len(last.expect[1])
           /\ last.err = ""
           /\ Flatten(last.data) = last.expect[1]

\* two messages were sent, the second of them not empty, and both have been
\* received in order
C2_Witness ==
    /\ last.op = "recv" /\ ~Faulty /\ last.rc = 1
    /\ last.expect = <<Msg(1)>>
    /\ nsend[2] = 2 /\ pending[2] = <<>> /\ roomy[1]

\* a receive that got as far as a whole header: the receive path was
\* active, eight bytes were there and the read of them did not fail
GotHeader ==
    /\ last.op = "recv" /\ OnEngine
    /\ ~last.pre.indone /\ ~last.pre.inerr
    /\ Len(last.hdr) = 8 /\ last.fault.at # 1
Untouched == last.calls = <<>> /\ last.took = 0 /\ last.wr = <<>>

\* C3: a receive whose capacity is below the length its header declares fails
\* with EMSGSIZE, takes the 8 header bytes and nothing of the payload and sets
\* inerr; from then on inerr is set and every receive fails with ECONNRESET
\* without a transport call.
C3_TooLargeBreaksReceive ==
    /\ (/\ GotHeader
        /\ dsock_getll(last.hdr) # Sentinel
        /\ U64Less(iov_size(last.caps), dsock_getll(last.hdr)))
           => /\ last.rc = -1 /\ last.err = "EMSGSIZE"
              /\ last.took = 8 /\ Len(last.calls) = 1
              /\ obj[last.eng].inerr
    /\ \A e \in Engines : toobig[e] => obj[e].inerr /\ ~obj[e].indone
    /\ (last.op = "recv" /\ OnEngine /\ last.pre.inerr /\ ~last.pre.indone)
           => last.rc = -1 /\ last.err = "ECONNRESET" /\ Untouched

\* a receive after one that failed with EMSGSIZE
C3_Witness ==
    /\ last.op = "recv" /\ toobig[last.eng] /\ last.pre.inerr
    /\ last.err = "ECONNRESET" /\ ~Faulty

\* C4: with outdone set, send and done fail with EPIPE and make no transport
\* call; an engine offers the termination marker to the transport at most
\* once; a receive does what it would do with outdone clear.
C4_DoneBlocksSending ==
    /\ (last.op \in {"send", "done"} /\ OnEngine /\ last.pre.outdone)
           => last.rc = -1 /\ last.err = "EPIPE" /\ Untouched
    /\ \A e \in Engines : ntry[e] <= 1 /\ nmark[e] <= 1
    /\ \A e \in Engines, caps \in RecvIovs :
           LET o == obj[e]
               a == pfx_mrecvv(o, caps, 1, wire[Peer(e)], NoFault)
               b == pfx_mrecvv([o EXCEPT !.outdone = ~@], caps, 1,
                               wire[Peer(e)], NoFault)
           IN  /\ a.rc = b.rc /\ a.err = b.err /\ a.took = b.took
               /\ a.data = b.data /\ a.blocked = b.blocked

\* a done after a done that succeeded
C4_Witness ==
    /\ last.op = "done" /\ last.pre.outdone /\ last.err = "EPIPE"
    /\ nmark[last.eng] = 1

\* a receive that succeeds with outdone set
C4_RecvAfterDone ==
    last.op = "recv" /\ last.pre.outdone /\ last.rc = 1

\* C5: a receive that reads the sentinel header fails with EPIPE and sets
\* indone; once a sentinel header has been read indone is set, and a receive
\* with indone set fails with EPIPE without a transport call.
C5_PeerDoneIsFinal ==
    /\ (GotHeader /\ dsock_getll(last.hdr) = Sentinel)
           => /\ last.rc = -1 /\ last.err = "EPIPE" /\ last.took = 8
              /\ obj[last.eng].indone
    /\ \A e \in Engines : seen[e] => obj[e].indone
    /\ (last.op = "recv" /\ OnEngine /\ last.pre.indone)
           => last.rc = -1 /\ last.err = "EPIPE" /\ Untouched

\* a receive after the one that read the marker
C5_Witness ==
    /\ last.op = "recv" /\ last.pre.indone /\ seen[last.eng]
    /\ last.err = "EPIPE"

\* C6: a flag that is set stays set, whatever is called; with outerr set,
\* send and done fail with ECONNRESET without a transport call, and with
\* inerr set so does receive.
C6_Reset ==
    /\ (last.op \in {"send", "done"} /\ OnEngine /\ last.pre.outerr)
           => last.rc = -1 /\ last.err = "ECONNRESET" /\ Untouched
    /\ (last.op = "recv" /\ OnEngine /\ last.pre.inerr)
           => last.rc = -1 /\ last.err = "ECONNRESET" /\ Untouched
C6_Kept ==
    \A e \in Engines :
        /\ obj[e].outerr => obj'[e].outerr
        /\ obj[e].inerr => obj'[e].inerr
        /\ obj[e].outdone => obj'[e].outdone
        /\ obj[e].indone => obj'[e].indone
C6_StickyFlags == []C6_Reset /\ [][C6_Kept]_vars

\* a send on an engine whose send path broke earlier
C6_Witness ==
    /\ last.op = "send" /\ last.pre.outerr /\ last.err = "ECONNRESET"
    /\ obj[last.eng].outerr

\* C7: in each direction at most one of the done flag and the error flag is
\* set, so the direction is Active, Done or Broken; no step leaves Done or
\* Broken.
SendState(o) == IF o.outerr THEN "Broken" ELSE IF o.outdone THEN "Done" ELSE "Active"
RecvState(o) == IF o.inerr THEN "Broken" ELSE IF o.indone THEN "Done" ELSE "Active"
C7_Exclusive ==
    \A e \in Engines :
        /\ ~(obj[e].outdone /\ obj[e].outerr)
        /\ ~(obj[e].indone /\ obj[e].inerr)
C7_Terminal ==
    \A e \in Engines :
        /\ SendState(obj[e]) # "Active" => SendState(obj'[e]) = SendState(obj[e])
        /\ RecvState(obj[e]) # "Active" => RecvState(obj'[e]) = RecvState(obj[e])
C7_OneStatePerPath == []C7_Exclusive /\ [][C7_Terminal]_vars

\* one direction Done and the other Broken, and calls still being made
C7_Witness ==
    /\ SendState(obj[1]) = "Done" /\ RecvState(obj[1]) = "Broken"
    /\ last.op = "done" /\ last.eng = 1 /\ last.pre.outdone

\* the last transport call was a write offering the termination marker, and
\* it failed
MarkerWriteFailed ==
    /\ last.calls # <<>>
    /\ last.calls[Len(last.calls)].fn = "bsend"
    /\ last.calls[Len(last.calls)].hdr = EightOnes
    /\ last.fault # NoFault

\* C8: outdone is set only when a whole termination marker has been written;
\* a marker write that fails sets outerr and leaves outdone clear; indone is
\* set only when a whole header equal to the sentinel has been read.
C8_DoneFlagsEarned ==
    /\ \A e \in Engines :
        /\ obj[e].outdone => nmark[e] >= 1
        /\ obj[e].indone => seen[e]
    /\ (last.op \in {"done", "stop"} /\ OnEngine /\ MarkerWriteFailed)
           => /\ last.rc = -1
              /\ obj[last.eng].outerr /\ ~obj[last.eng].outdone

\* a done whose marker write failed half way
C8_Witness ==
    /\ last.op = "done" /\ MarkerWriteFailed /\ Len(last.wr) = 4
    /\ obj[last.eng].outerr

\* C9: engine code closes the wrapped handle at most once, never after
\* pfx_stop handed it back, and never runs on a struct that has been freed.
C9_ReleasedOnce ==
    \A e \in Engines :
        /\ nclose[e] <= 1
        /\ handed[e] => tr[e] = "caller"
        /\ ~uaf[e]

\* the error a failed stop has to report
StopCause ==
    IF ~PathsWhole(last.pre) THEN "ECONNRESET"
    ELSE IF last.fault # NoFault THEN last.fault.err
    ELSE "EMSGSIZE"

\* C10: a stop with inerr or outerr set fails with ECONNRESET without a
\* transport read or write; a stop that fails reports the error that made it
\* fail, has closed the wrapped handle and has not handed it back.
C10_StopFailure ==
    /\ (last.op = "stop" /\ OnEngine /\ ~PathsWhole(last.pre))
           => last.rc = -1 /\ last.err = "ECONNRESET" /\ Untouched
    /\ (last.op = "stop" /\ OnEngine /\ last.rc < 0)
           => /\ last.err = StopCause
              /\ tr[last.eng] = "closed" /\ nclose[last.eng] = 1
              /\ ~handed[last.eng]

\* a stop that failed in the drain loop on a transport error
C10_Witness ==
    /\ last.op = "stop" /\ last.rc < 0 /\ last.fault # NoFault
    /\ Len(last.calls) >= 2 /\ last.err = "ETIMEDOUT"
    /\ tr[last.eng] = "closed"

\* the transport reads of a stop: its calls after the marker write, if any
StopReads ==
    IF last.calls # <<>> /\ last.calls[1].fn = "bsend"
    THEN Tail(last.calls) ELSE last.calls

\* C11: a stop that succeeds wrote the termination marker once, first, when
\* outdone was clear and not at all when it was set; every later transport
\* call is a read; it returns with outdone and indone set; the last thing it
\* read is the peer's sentinel header, whole, and it read nothing but whole
\* headers; the wrapped handle is open and with the caller.
C11_StopOrder ==
    (last.op = "stop" /\ OnEngine /\ last.rc >= 0)
        => /\ last.calls # <<>>
           /\ (last.calls[1].fn = "bsend") = ~last.pre.outdone
           /\ last.calls[1].fn = "bsend" =>
                  last.calls[1].hdr = EightOnes /\ last.calls[1].n = 8
           /\ nmark[last.eng] = 1 /\ ntry[last.eng] = 1
           /\ \A i \in DOMAIN StopReads : StopReads[i].fn = "brecv"
           /\ obj[last.eng].outdone /\ obj[last.eng].indone
           /\ last.hdr = EightOnes
           /\ last.took = 8 * Cardinality({i \in DOMAIN StopReads :
                                              StopReads[i].n = 8})
           /\ tr[last.eng] = "caller" /\ nclose[last.eng] = 0

\* C11, the case the code keeps: a stop that succeeds on a transport that has
\* never failed (reached by C11_CleanStop)
C11_CleanStop ==
    /\ last.op = "stop" /\ OnEngine /\ last.rc >= 0 /\ ~Faulty
    /\ obj[last.eng].outdone /\ obj[last.eng].indone
    /\ last.hdr = EightOnes /\ ~last.pre.outdone

\* stop has been called on engine e and has not failed
Stopping(e) == stp[e].at = "drain" \/ handed[e]
\* no application message is unread: a wire holds at most a termination marker
Quiet == \A e \in Engines : wire[e] \in {<<>>, EightOnes}
\* both stops have returned the wrapped handle, open, and nothing is unread
BothStopped ==
    \A e \in Engines :
        /\ handed[e] /\ tr[e] = "caller" /\ nclose[e] = 0
        /\ obj[e].outdone /\ obj[e].indone
        /\ wire[e] = <<>>

\* C12: over a stream that does not fail, once both engines are in stop with
\* no application message unread in either direction, both stops eventually
\* return their wrapped handle, and then every byte written has been
\* consumed: the two handles carry an empty stream, as at the start.
C12_HandshakeCompletes ==
    ((\A e \in Engines : Stopping(e)) /\ Quiet) ~> BothStopped

\* both stops returned after messages were exchanged in both directions
C12_Witness ==
    /\ BothStopped /\ nsend[2] >= 1
    /\ last.op = "stop"

\* the frame of a message of fewer than 65536 bytes: its length in 8 bytes,
\* most significant first, then its bytes
Frame(msg) ==
    <<0, 0, 0, 0, 0, 0, Len(msg) \div 256, Len(msg) % 256>> \o msg
\* no stop is in progress on the engine of the last call
NoStop == stp[last.eng].at = "idle"
SendActive ==
    last.op = "send" /\ OnEngine /\ ~last.pre.outdone /\ ~last.pre.outerr

\* C13: a send on an Active send path makes exactly one transport call, a
\* write of the frame of the message (8 + len bytes) under the caller's
\* deadline.  When the write succeeds the send returns 0, exactly the frame
\* has been written and the flags are as before; when it fails the send
\* returns the transport's error, what was written is a proper prefix of the
\* frame, and outerr is the one flag that has changed.  A send that reaches the wire
\* appends what it wrote to the stream and changes nothing else of it.
C13_Frame ==
    SendActive =>
        /\ Len(last.calls) = 1
        /\ last.calls[1] = [fn |-> "bsend", n |-> 8 + Len(last.msg),
                             dl |-> last.dl, hdr |-> FirstEight(Frame(last.msg))]
        /\ last.rc = 0 =>
               /\ last.fault = NoFault \/ last.fault.n >= 8 + Len(last.msg)
               /\ last.wr = Frame(last.msg)
               /\ NoStop => obj[last.eng] = last.pre
        /\ last.rc # 0 =>
               /\ last.fault # NoFault
               /\ last.rc = -1 /\ last.err = last.fault.err
               /\ Len(last.wr) < 8 + Len(last.msg)
               /\ last.wr = SubSeq(Frame(last.msg), 1, Len(last.wr))
               /\ NoStop => obj[last.eng] = [last.pre EXCEPT !.outerr = TRUE]
C13_Grows ==
    \A e \in Engines :
        nsend'[e] = nsend[e] + 1 =>
            /\ wire'[e] = wire[e] \o last'.wr
            /\ wire'[Peer(e)] = wire[Peer(e)]
            /\ last'.op = "send" /\ last'.eng = e
C13_OneWrite == []C13_Frame /\ [][C13_Grows]_vars

\* a send of a one-byte message has put its 9 bytes on the wire, and a send
\* on the other engine failed half way through its header
C13_Witness ==
    /\ SendActive /\ last.rc = 0 /\ last.msg = Msg(1)
    /\ Len(wire[last.eng]) >= 9
    /\ obj[Peer(last.eng)].outerr /\ nfault = 1

\* C14: every transport call made inside a send, a receive or a stop carries
\* the deadline the caller gave to that call (the header read and the body
\* read of a receive, and the marker write of a stop, included).
C14_OneDeadline ==
    (last.op \in {"send", "recv", "stop"} /\ OnEngine)
        => \A i \in DOMAIN last.calls : last.calls[i].dl = last.dl

\* C14, the part the code keeps: the two reads of a receive share the
\* caller's deadline (reached by C14_RecvShares)
C14_RecvShares ==
    /\ last.op = "recv" /\ OnEngine /\ Len(last.calls) = 2
    /\ last.calls[1].dl = last.dl /\ last.calls[2].dl = last.dl

\* two results of a send or a done agree in everything but the receive flags
SameOut(a, b) ==
    /\ a.rc = b.rc /\ a.err = b.err /\ a.wr = b.wr /\ a.calls = b.calls
    /\ a.obj.outdone = b.obj.outdone /\ a.obj.outerr = b.obj.outerr
\* two results of a receive agree in everything but the send flags
SameIn(a, b) ==
    /\ a.rc = b.rc /\ a.err = b.err /\ a.took = b.took /\ a.data = b.data
    /\ a.calls = b.calls /\ a.blocked = b.blocked
    /\ a.obj.indone = b.obj.indone /\ a.obj.inerr = b.obj.inerr
\* a transport call that succeeds, and one that fails half way through a header
SomeFaults == {NoFault, [at |-> 1, err |-> "ETIMEDOUT", n |-> 4]}

\* C15: send and done make no transport read and leave indone and inerr as
\* they were; receive makes no transport write and leaves outdone and outerr
\* as they were; what send and done do does not depend on indone and inerr,
\* and what receive does does not depend on outdone and outerr.
C15_Independent ==
    /\ (last.op \in {"send", "done"} /\ OnEngine)
           => /\ \A i \in DOMAIN last.calls : last.calls[i].fn = "bsend"
              /\ last.took = 0 /\ last.data = <<>>
              /\ NoStop => /\ obj[last.eng].indone = last.pre.indone
                           /\ obj[last.eng].inerr = last.pre.inerr
    /\ (last.op = "recv" /\ OnEngine)
           => /\ \A i \in DOMAIN last.calls : last.calls[i].fn = "brecv"
              /\ last.wr = <<>>
              /\ NoStop => /\ obj[last.eng].outdone = last.pre.outdone
                           /\ obj[last.eng].outerr = last.pre.outerr
    /\ \A e \in Engines, fault \in SomeFaults :
           LET o == obj[e] IN
           /\ \A f \in {"indone", "inerr"} :
                  LET p == [o EXCEPT ![f] = ~@] IN
                  /\ SameOut(pfx_hdone(o, fault), pfx_hdone(p, fault))
                  /\ pfx_hdone(o, fault).obj[f] = o[f]
                  /\ \A iov \in SendIovs :
                         /\ SameOut(pfx_msendv(o, iov, 1, fault),
                                    pfx_msendv(p, iov, 1, fault))
                         /\ pfx_msendv(o, iov, 1, fault).obj[f] = o[f]
           /\ \A f \in {"outdone", "outerr"}, caps \in RecvIovs :
                  LET p == [o EXCEPT ![f] = ~@]
                      a == pfx_mrecvv(o, caps, 1, wire[Peer(e)], fault)
                  IN  /\ SameIn(a, pfx_mrecvv(p, caps, 1, wire[Peer(e)], fault))
                      /\ a.obj[f] = o[f]

\* a receive that delivers a message on an engine whose send path is broken
C15_Witness ==
    /\ last.op = "recv" /\ OnEngine /\ last.pre.outerr /\ last.rc = 1
    /\ obj[last.eng].outerr /\ ~obj[last.eng].inerr

\* the errno of the first call of pfx_start that failed
StepErrno(env) ==
    IF env.bs # "ok" THEN env.bs
    ELSE IF env.malloc # "ok" THEN "ENOMEM"
    ELSE IF env.hmake # "ok" THEN env.hmake
    ELSE env.hdup
StartFailed == last.op = "start" /\ last.rc < 0

\* C16: a pfx_start that fails reports the errno of the step that failed:
\* that of the capability query, ENOMEM for the allocation, that of hmake,
\* that of hdup.
C16_StartErrno ==
    (StartFailed /\ ~aborted[last.eng]) => last.err = StepErrno(last.env)

\* C16, the steps whose errno the code does report: the query, the
\* allocation and the duplication (reached by C16_DupErrno)
C16_DupErrno ==
    /\ StartFailed /\ ~aborted[last.eng]
    /\ last.env.hdup = "EMFILE" /\ last.err = "EMFILE"

\* C17: after a pfx_start that failed the caller's handle is open and the
\* caller's, no engine handle is registered, and the struct, if it was
\* allocated, has been freed exactly once.
C17_StartFailureClean ==
    StartFailed =>
        LET e == last.eng
            allocated == last.env.bs = "ok" /\ last.env.malloc = "ok"
        IN  /\ orig[e] = "open" /\ tr[e] = "caller" /\ nclose[e] = 0
            /\ ~htab[e]
            /\ ~aborted[e]
            /\ IF allocated THEN mem[e] = "freed" /\ nfree[e] = 1
               ELSE mem[e] = "none" /\ nfree[e] = 0

\* C17, a failure path the code gets right: hmake fails and the struct is
\* freed once (reached by C17_MakeFails)
C17_MakeFails ==
    /\ StartFailed /\ last.env.hmake # "ok"
    /\ mem[last.eng] = "freed" /\ nfree[last.eng] = 1 /\ orig[last.eng] = "open"

\* C18: after a pfx_start that succeeded the caller's handle is closed, the
\* engine is registered and holds its own open handle to the transport (not
\* the caller's number), and the four flags are clear.
C18_StartOwnership ==
    (last.op = "start" /\ last.rc >= 0) =>
        LET e == last.eng IN
        /\ last.rc = EngineHandle(e) /\ last.err = ""
        /\ orig[e] = "closed" /\ tr[e] = "engine" /\ nclose[e] = 0
        /\ htab[e] /\ mem[e] = "live" /\ nfree[e] = 0
        /\ obj[e].s >= 0 /\ obj[e].s # CallerHandle(e)
        /\ ~obj[e].outdone /\ ~obj[e].outerr /\ ~obj[e].indone /\ ~obj[e].inerr

\* the second of the two engines has just been created
C18_Witness ==
    /\ last.op = "start" /\ last.rc >= 0
    /\ htab[1] /\ htab[2] /\ orig[1] = "closed" /\ orig[2] = "closed"

\* C19: an engine whose inerr is clear has read whole frames only: what it
\* has consumed is the sum of 8 + N over the frames it consumed (8 for a
\* termination frame), so its read position is at a frame boundary; an
\* engine that stopped reading inside a frame has inerr set.
C19_FrameAligned ==
    \A e \in Engines : inside[e] => obj[e].inerr

\* after a receive that delivered a message the engine is at the boundary of
\* a frame that is still unread; and a receive has failed inside a frame
C19_Witness ==
    /\ last.op = "recv" /\ last.eng = 1 /\ last.rc = 1 /\ last.took = 9
    /\ ~obj[1].inerr /\ ~inside[1] /\ Len(wire[2]) >= 8
C19_InsideFrame ==
    /\ inside[1] /\ obj[1].inerr /\ last.op = "recv" /\ last.took = 8
    /\ last.fault.at = 2

\* C20: a send that succeeds has not handed the transport a header equal to
\* the termination marker, whatever the lengths of its buffers.
C20_NeverSentinel ==
    (last.op = "send" /\ OnEngine /\ last.rc = 0) => last.hdr # EightOnes

\* C20, the lengths the claim is right about: a send of 2^64 - 2 bytes
\* writes a header that is not the marker (reached by C20_LongestLegal)
C20_LongestLegal ==
    /\ last.op = "send" /\ OnEngine /\ last.rc = 0
    /\ iov_size_wide(last.caps) = <<Limb - 1, Limb - 1, Limb - 1, Limb - 2>>
    /\ last.hdr = <<255, 255, 255, 255, 255, 255, 255, 254>>

====
